---------------------------- MODULE Spec2Model ----------------------------
(***************************************************************************)
(* Model of the Vettoo dashboard (src/modules): the filter helpers of      *)
(* filters.py, shorten_label and the run_app script of ui.py.               *)
(*                                                                         *)
(* A Python str is the sequence of its code points (integers), so that      *)
(* split, strip, int, join and sorted are computed and not assumed; the      *)
(* names of the three statuses, which the code only compares, are strings.   *)
(*  A numeric cell is a       *)
(* record [kind |-> "num", v |-> n] or [kind |-> "nan", v |-> 0] (a missing  *)
(* value); a displayed cell may also be [kind |-> "dash", v |-> 0].          *)
(***************************************************************************)
EXTENDS Integers, Sequences, FiniteSets, TLC

VARIABLES
    workbook,     \* the Excel workbook: status sheets and the SA sheet
    status,       \* st.session_state["status"]
    tps,          \* st.session_state["tps"]
    aggregate,    \* st.session_state["aggregate"]
    quals,        \* st.session_state["quals"]
    year_range,   \* st.session_state["year_range"]
    view,         \* what the last run of run_app rendered
    call,         \* the helper call last made directly (filters, shorten_label)
    ret           \* what that call returned

vars == <<workbook, status, tps, aggregate, quals, year_range, view, call, ret>>

---------------------------------------------------------------------------
(* Bounds *)

MaxRows == 2          \* rows of a status sheet
MaxFilterRows == 3    \* rows of a table handed to the filter helpers
MaxLen == 4           \* length of a column name handed to shorten_label

---------------------------------------------------------------------------
(* Strings *)

\* The code points the code names.
Tab == 9
Space == 32
Plus == 43
Comma == 44
Minus == 45
Underscore == 95

\* str.__lt__: lexicographic by code point, a proper prefix is smaller.
RECURSIVE StrLess(_, _)
StrLess(s, t) ==
    IF t = <<>> THEN FALSE
    ELSE IF s = <<>> THEN TRUE
    ELSE IF Head(s) = Head(t) THEN StrLess(Tail(s), Tail(t))
    ELSE Head(s) < Head(t)

\* The characters str.strip() removes, those str.isspace() holds of:
\* U+0009..U+000D, U+001C..U+001F, U+0020, U+0085, U+00A0, U+1680,
\* U+2000..U+200A, U+2028, U+2029, U+202F, U+205F, U+3000.
Whitespace ==
    (9..13) \cup (28..31) \cup {32, 133, 160, 5760} \cup (8192..8202)
        \cup {8232, 8233, 8239, 8287, 12288}

\* The characters int() removes around a literal: it turns the blanks above
\* U+007F into spaces and then skips \t \n \v \f \r and the space, so that
\* U+001C..U+001F stay and make the literal invalid.
IntWhitespace == Whitespace \ (28..31)

RECURSIVE lstrip(_, _)
lstrip(s, chars) ==
    IF s # <<>> /\ Head(s) \in chars THEN lstrip(Tail(s), chars) ELSE s

RECURSIVE rstrip(_, _)
rstrip(s, chars) ==
    IF s # <<>> /\ s[Len(s)] \in chars
    THEN rstrip(SubSeq(s, 1, Len(s) - 1), chars) ELSE s

\* s.strip()
strip(s) == rstrip(lstrip(s, Whitespace), Whitespace)

Contains(s, ch) == \E i \in 1..Len(s) : s[i] = ch

RECURSIVE FindFrom(_, _, _)
FindFrom(s, ch, i) == IF s[i] = ch THEN i ELSE FindFrom(s, ch, i + 1)

\* s.find(ch) + 1 when ch occurs in s.
FirstIndex(s, ch) == FindFrom(s, ch, 1)

RECURSIVE RFindFrom(_, _, _)
RFindFrom(s, ch, i) == IF s[i] = ch THEN i ELSE RFindFrom(s, ch, i - 1)

\* s.rfind(ch) + 1 when ch occurs in s.
LastIndex(s, ch) == RFindFrom(s, ch, Len(s))

\* c.split(",", 1)[1]
AfterFirst(s, ch) == SubSeq(s, FirstIndex(s, ch) + 1, Len(s))

\* c.split("_")[-1]
LastToken(s, ch) ==
    IF Contains(s, ch) THEN SubSeq(s, LastIndex(s, ch) + 1, Len(s)) ELSE s

\* The digit 0 of every run of ten decimal digits (Unicode category Nd, as of
\* the Unicode 14 tables of Python 3.11): z .. z + 9 are the digits 0 .. 9.
DecimalZeros ==
    {48, 1632, 1776, 1984, 2406, 2534, 2662, 2790, 2918, 3046, 3174, 3302,
     3430, 3558, 3664, 3792, 3872, 4160, 4240, 6112, 6160, 6470, 6608,
     6784, 6800, 6992, 7088, 7232, 7248, 42528, 43216, 43264, 43472, 43504,
     43600, 44016, 65296, 66720, 68912, 69734, 69872, 69942, 70096, 70384,
     70736, 70864, 71248, 71360, 71472, 71904, 72016, 72784, 73040, 73120,
     92768, 92864, 93008, 120782, 120792, 120802, 120812, 120822, 123200,
     123632, 125264, 130032}

\* What a call returns in place of a value when it raises ValueError.
ValueError == "ValueError"

\* int() reads every decimal digit; 0..9 are the only ones below U+0080.
IsDigit(ch) ==
    IF ch < 128 THEN 48 <= ch /\ ch <= 57
    ELSE \E z \in DecimalZeros : z <= ch /\ ch <= z + 9

DigitValue(ch) ==
    IF ~IsDigit(ch) THEN ValueError
    ELSE IF ch < 128 THEN ch - 48
    ELSE ch - (CHOOSE z \in DecimalZeros : z <= ch /\ ch <= z + 9)

\* The digits of an int() literal t that has no blanks around it: t without
\* its sign.
IntBody(t) == IF t # <<>> /\ t[1] \in {Plus, Minus} THEN Tail(t) ELSE t

\* The most digits int() converts (sys.int_max_str_digits, as the interpreter
\* starts): a literal with more raises ValueError.  Leading zeros count,
\* underscores and the sign do not.
MaxStrDigits == 4300

\* The number of digits of b.
DigitCount(b) == Cardinality({i \in 1..Len(b) : IsDigit(b[i])})

\* Decimal digits with single underscores between them, no more of them than
\* int() converts.
IsIntBody(b) ==
    /\ b # <<>>
    /\ IsDigit(b[1])
    /\ IsDigit(b[Len(b)])
    /\ \A i \in 1..Len(b) : IsDigit(b[i]) \/ b[i] = Underscore
    /\ \A i \in 1..(Len(b) - 1) : ~(b[i] = Underscore /\ b[i + 1] = Underscore)
    /\ DigitCount(b) <= MaxStrDigits

\* The blanks int() removes around the literal.
int_strip(s) == rstrip(lstrip(s, IntWhitespace), IntWhitespace)

\* int(s) accepts s: blanks, an optional sign, the digits, blanks.
IsIntLiteral(s) == IsIntBody(IntBody(int_strip(s)))

\* The value of the first n characters of the digits b, underscores skipped.
RECURSIVE DigitsValue(_, _)
DigitsValue(b, n) ==
    IF n = 0 THEN 0
    ELSE IF b[n] = Underscore THEN DigitsValue(b, n - 1)
    ELSE 10 * DigitsValue(b, n - 1) + DigitValue(b[n])

Signed(t, n) == IF t[1] = Minus THEN 0 - n ELSE n

ParseStripped(t) ==
    IF ~IsIntBody(IntBody(t)) THEN ValueError
    ELSE Signed(t, DigitsValue(IntBody(t), Len(IntBody(t))))

\* int(s): the value of the literal, ValueError for any other text (the empty
\* string included).
ParseInt(s) == ParseStripped(int_strip(s))

\* sep.join(parts)
RECURSIVE Join(_, _)
Join(sep, parts) ==
    IF parts = <<>> THEN <<>>
    ELSE IF Len(parts) = 1 THEN parts[1]
    ELSE parts[1] \o sep \o Join(sep, Tail(parts))

---------------------------------------------------------------------------
(* Lists *)

Range(s) == {s[i] : i \in 1..Len(s)}

\* Series.unique(): the distinct values in order of first appearance.
RECURSIVE Unique(_)
Unique(s) ==
    IF s = <<>> THEN <<>>
    ELSE LET init == Unique(SubSeq(s, 1, Len(s) - 1))
             x    == s[Len(s)]
         IN  IF x \in Range(init) THEN init ELSE Append(init, x)

RECURSIVE InsertSorted(_, _)
InsertSorted(x, s) ==
    IF s = <<>> THEN <<x>>
    ELSE IF StrLess(x, Head(s)) THEN <<x>> \o s
    ELSE <<Head(s)>> \o InsertSorted(x, Tail(s))

\* sorted(list of str): stable, ascending.
RECURSIVE sorted(_)
sorted(s) ==
    IF s = <<>> THEN <<>>
    ELSE InsertSorted(s[Len(s)], sorted(SubSeq(s, 1, Len(s) - 1)))

\* sorted(set of int): the k-th element has k - 1 smaller ones.
SortedInts(S) ==
    [k \in 1..Cardinality(S) |->
        CHOOSE x \in S : Cardinality({y \in S : y < x}) = k - 1]

---------------------------------------------------------------------------
(* ui.py: shorten_label *)

shorten_label_last(c) ==
    IF Contains(c, Comma) THEN strip(SubSeq(c, LastIndex(c, Comma) + 1, Len(c))) ELSE c

shorten_label(c) ==
    IF Contains(c, Comma) THEN strip(AfterFirst(c, Comma)) ELSE c

---------------------------------------------------------------------------
(* filters.py.  A table is a sequence of rows                               *)
(* [qual, tdv, tp, vals]: "Latest Qualification", "TDV",                    *)
(* "Training Packages" and the period cells in column order.                *)

QualColumn(df) == [i \in 1..Len(df) |-> df[i].qual]
TpColumn(df) == [i \in 1..Len(df) |-> df[i].tp]

isin_tp(r, names) == r.tp \in Range(names)
isin_qual(r, names) == r.qual \in Range(names)

filter_by_tp_noguard(df, sel) ==
    SelectSeq(df, LAMBDA r : isin_tp(r, sel))

filter_by_tp(df, sel) ==
    IF sel = <<>> THEN df
    ELSE SelectSeq(df, LAMBDA r : isin_tp(r, sel))

filter_by_qual(df, sel) ==
    IF sel = <<>> THEN df
    ELSE SelectSeq(df, LAMBDA r : isin_qual(r, sel))

available_quals_unsorted(df, selected_tps) ==
    IF selected_tps = <<>> THEN Unique(QualColumn(df))
    ELSE Unique(QualColumn(SelectSeq(df, LAMBDA r : isin_tp(r, selected_tps))))

available_quals(df, selected_tps) ==
    IF selected_tps = <<>> THEN sorted(Unique(QualColumn(df)))
    ELSE sorted(Unique(QualColumn(SelectSeq(df, LAMBDA r : isin_tp(r, selected_tps)))))

---------------------------------------------------------------------------
(* Cells and sums *)

Num(n) == [kind |-> "num", v |-> n]
NaN == [kind |-> "nan", v |-> 0]
Dash == [kind |-> "dash", v |-> 0]

\* Series.sum(): missing values are skipped, the empty sum is 0.
RECURSIVE SumCells(_)
SumCells(cells) ==
    IF cells = <<>> THEN 0
    ELSE (IF Head(cells).kind = "num" THEN Head(cells).v ELSE 0) + SumCells(Tail(cells))

\* The sum of period column j over the rows of df.
ColumnSum(df, j) == Num(SumCells([i \in 1..Len(df) |-> df[i].vals[j]]))

\* round(n / d) as numpy rounds: to the nearest integer, a tie to the even one.
RoundHalfEven(n, d) ==
    LET q == n \div d
        r == n % d
    IN  IF 2 * r < d THEN q
        ELSE IF 2 * r > d THEN q + 1
        ELSE IF q % 2 = 0 THEN q ELSE q + 1

Bucket == 5

\* rounded = (raw / 5).round() * 5
Rounded(raw) ==
    IF raw.kind = "num" THEN Num(RoundHalfEven(raw.v, Bucket) * Bucket) ELSE raw

round_redact_zero_too(raw) ==
    LET rounded == Rounded(raw)
    IN  IF rounded # Num(0) THEN rounded ELSE Dash

\* rounded.where((rounded != 0) | (raw == 0), "-"), one cell
round_redact(raw) ==
    LET rounded == Rounded(raw)
    IN  IF rounded # Num(0) \/ raw = Num(0) THEN rounded ELSE Dash

RoundCells(cells) == [j \in 1..Len(cells) |-> round_redact(cells[j])]

---------------------------------------------------------------------------
(* ui.py: run_app.  A sheet is [cols, rows]: the names of its period         *)
(* columns in column order and its rows, each with one number or missing     *)
(* value per period column.                                                  *)

Statuses == <<"Commencements", "In-training", "Completions">>

\* "None"
NoneStr == <<78, 111, 110, 101>>
\* ", "
CommaSpace == <<Comma, Space>>
\* An identifier cell the totals row leaves empty.
MissingId == NaN
\* "Total of selected items"
TotalLabel ==
    <<84, 111, 116, 97, 108, 32, 111, 102, 32, 115, 101,
      108, 101, 99, 116, 101, 100, 32, 105, 116, 101, 109, 115>>

\* int(c.split('_')[-1])
YearOf(c) == ParseInt(LastToken(c, Underscore))

ParsesYear(c) == IsIntLiteral(LastToken(c, Underscore))

\* pd.api.types.is_numeric_dtype(df[c]) of period column j.  read_excel infers
\* a column's dtype from its cells: numbers and missing values make it int64
\* or float64, a column without any cell (a sheet of a header only) is object.
is_numeric_dtype(sheet, j) == sheet.rows # <<>>

\* all_numeric = [c for c in df.columns if is_numeric_dtype(df[c])], as the
\* positions of the columns.
all_numeric(sheet) ==
    SelectSeq([j \in 1..Len(sheet.cols) |-> j], LAMBDA j : is_numeric_dtype(sheet, j))

\* int() raises on the name of a numeric column.
years_int_raises(sheet) ==
    \E j \in Range(all_numeric(sheet)) : ~ParsesYear(sheet.cols[j])

\* years_int = sorted({int(c.split('_')[-1]) for c in all_numeric})
years_int(sheet) ==
    IF years_int_raises(sheet) THEN ValueError
    ELSE SortedInts({YearOf(sheet.cols[j]) : j \in Range(all_numeric(sheet))})

\* The options of the year range slider: none when the run shows no slider,
\* for want of years or because it has raised before.
slider_options(sheet) ==
    IF years_int_raises(sheet) THEN <<>>
    ELSE SortedInts({YearOf(sheet.cols[j]) : j \in Range(all_numeric(sheet))})

\* start_year is None or (start_year <= int(c.split('_')[-1]) <= end_year)
Between(y, yr) == yr[1] <= y /\ y <= yr[2]

InRange(c, yr) == yr = <<>> \/ Between(YearOf(c), yr)

\* The positions of the numeric columns within the year range, in column order.
RECURSIVE SelectCols(_, _, _)
SelectCols(sheet, yr, j) ==
    IF j > Len(sheet.cols) THEN <<>>
    ELSE (IF is_numeric_dtype(sheet, j) /\ InRange(sheet.cols[j], yr)
          THEN <<j>> ELSE <<>>) \o SelectCols(sheet, yr, j + 1)

\* With a year range, int() is applied to the name of every numeric column.
numeric_cols_raises(sheet, yr) == yr # <<>> /\ years_int_raises(sheet)

numeric_cols_all(sheet, yr) == SelectCols(sheet, <<>>, 1)

\* numeric_cols = [c for c in columns if is_numeric_dtype(c) and (in range)]
numeric_cols(sheet, yr) ==
    IF numeric_cols_raises(sheet, yr) THEN ValueError ELSE SelectCols(sheet, yr, 1)

Names(cols, idx) == [k \in 1..Len(idx) |-> cols[idx[k]]]
Restrict(vals, idx) == [k \in 1..Len(idx) |-> vals[idx[k]]]

\* latest = numeric_cols[-1] if numeric_cols else ""
Latest(names) == IF names = <<>> THEN <<>> ELSE names[Len(names)]

\* The period labels of the chart and the headers of the table.
Relabel(names) == [k \in 1..Len(names) |-> shorten_label(names[k])]

\* DataFrame.melt: one (key, period, value) per row and period, period-major.
RECURSIVE Flatten(_)
Flatten(ss) == IF ss = <<>> THEN <<>> ELSE Head(ss) \o Flatten(Tail(ss))

melt(keys, rowcells, names) ==
    Flatten([k \in 1..Len(names) |->
                [i \in 1..Len(keys) |->
                    [key |-> keys[i], period |-> shorten_label(names[k]),
                     value |-> rowcells[i][k]]]])

groupby_first(sub, idx) ==
    LET groups == sorted(Unique(TpColumn(sub)))
    IN  [g \in 1..Len(groups) |->
            LET members == SelectSeq(sub, LAMBDA r : r.tp = groups[g])
            IN  [tp |-> groups[g],
                 cells |-> [k \in 1..Len(idx) |-> members[1].vals[idx[k]]]]]

\* sub.groupby("Training Packages")[numeric_cols].sum().reset_index()
groupby_sum(sub, idx) ==
    LET groups == sorted(Unique(TpColumn(sub)))
    IN  [g \in 1..Len(groups) |->
            LET members == SelectSeq(sub, LAMBDA r : r.tp = groups[g])
            IN  [tp |-> groups[g],
                 cells |-> [k \in 1..Len(idx) |-> ColumnSum(members, idx[k])]]]

\* totals = sub[numeric_cols].sum(), as the row appended to the table
totals_row_of_rounded(sub, idx) ==
    [qual |-> TotalLabel, tdv |-> MissingId, tp |-> MissingId,
     cells |-> [k \in 1..Len(idx) |->
                  Num(SumCells([i \in 1..Len(sub) |-> Rounded(sub[i].vals[idx[k]])]))]]

totals_row(sub, idx) ==
    [qual |-> TotalLabel, tdv |-> MissingId, tp |-> MissingId,
     cells |-> [k \in 1..Len(idx) |-> ColumnSum(sub, idx[k])]]

\* "Qualifications": ", ".join(quals) if quals else "None"
metadata_quals(tp, ql) ==
    IF ql # <<>> THEN Join(CommaSpace, ql) ELSE NoneStr

\* "Training Packages": ", ".join(tps) if tps else "None"
metadata_tps(tp) == IF tp # <<>> THEN Join(CommaSpace, tp) ELSE NoneStr

build_metadata(st, tp, ql, yr, names, hasYears) ==
    [Source |-> <<shorten_label(Latest(names)), st>>,
     Status |-> st,
     TrainingPackages |-> metadata_tps(tp),
     Qualifications |-> metadata_quals(tp, ql),
     Years |-> IF hasYears THEN yr ELSE NoneStr]

NoMetadata == [Source |-> <<>>, Status |-> "", TrainingPackages |-> <<>>,
               Qualifications |-> <<>>, Years |-> <<>>]

\* A run ended by an exception: nothing is rendered or exported.
Raised(path) ==
    [outcome |-> "raised", path |-> path, sub |-> <<>>, cols |-> <<>>, idx |-> <<>>,
     applied_quals |-> <<>>, header |-> <<>>, chart |-> <<>>, raw |-> <<>>,
     table |-> <<>>, metadata |-> NoMetadata, exported |-> FALSE]

\* A dict literal keeps one entry per key, in the order the keys first appear,
\* each with the value written last: its keys and its values.
DictKeys(keys) == Unique(keys)

LastWith(keys, h) ==
    CHOOSE k \in 1..Len(keys) :
        keys[k] = h /\ \A j \in (k + 1)..Len(keys) : keys[j] # h

DictValues(keys, vals) ==
    [m \in 1..Len(DictKeys(keys)) |-> vals[LastWith(keys, DictKeys(keys)[m])]]

\* "Latest Qualification", the identifier column of the status-only table.
LatestQualification ==
    <<76, 97, 116, 101, 115, 116, 32, 81, 117, 97, 108, 105, 102, 105, 99, 97, 116, 105, 111, 110>>

\* A cell that holds text: f"Total {status}".
Text(t) == [kind |-> "str", v |-> t]

\* The status-only branch: the SA sheet, one row per status.  The chart has a
\* point per period column.  The table is one dict: the key "Latest
\* Qualification" with the text "Total <status>", then a key per shortened
\* label with the column's total; columns of one label share a cell, and a
\* column whose label is "Latest Qualification" overwrites the text.  Every
\* key but "Latest Qualification" is a period column and is rounded.
run_status_only(wb, st, yr) ==
    LET sa    == wb.sa
        idx   == numeric_cols(sa, yr)
        names == Names(sa.cols, idx)
        row   == SelectSeq(sa.rows, LAMBDA r : r.status = st)
        base  == [path |-> "status", sub |-> <<>>, cols |-> names, idx |-> idx,
                  applied_quals |-> <<>>, metadata |-> NoMetadata, exported |-> FALSE]
    IN  IF numeric_cols_raises(sa, yr)
        THEN \* int() of a column name raises in the list of numeric_cols
             Raised("status")
        ELSE IF row = <<>> \/ idx = <<>>
        THEN \* row.empty: st.warning and return
             base @@ [outcome |-> "warning", chart |-> <<>>, header |-> <<>>,
                      raw |-> <<>>, table |-> <<>>]
        ELSE IF Len(row) > 1 \/ Len(idx) = 1
        THEN \* row.squeeze() is no Series: a scalar has no .values, a frame
             \* cannot be one column of plot_df
             base @@ [outcome |-> "raised", chart |-> <<>>, header |-> <<>>,
                      raw |-> <<>>, table |-> <<>>]
        ELSE LET totals == Restrict(row[1].vals, idx)
                 labels == Relabel(names)
                 keys   == <<LatestQualification>> \o labels
                 vals   == << Text(<<"Total ", st>>) >> \o totals
                 entry  == DictValues(keys, vals)
             IN  base @@
                 [outcome |-> "ok",
                  chart |-> [k \in 1..Len(idx) |->
                               [key |-> st, period |-> labels[k], value |-> totals[k]]],
                  header |-> Tail(DictKeys(keys)),
                  raw |-> << [qual |-> entry[1], cells |-> Tail(entry)] >>,
                  table |-> << [qual |-> entry[1],
                                cells |-> RoundCells(Tail(entry))] >>]

\* rename(columns={c: shorten_label(c) for c in numeric_cols}) gives two
\* columns one label: raw and rounded then hold each of them twice, and
\* table_display[num_cols] = ... raises ValueError.
rename_collides(names) ==
    \E i, j \in 1..Len(names) :
        i # j /\ shorten_label(names[i]) = shorten_label(names[j])

\* The filtered branch: aggregated by package, or detailed with a totals row.
\* The chart is drawn before the table is rounded.
run_filtered(wb, st, tp, ag, ql, yr) ==
    LET df    == wb.sheet[st]
        sub1  == IF tp # <<>> THEN filter_by_tp(df.rows, tp) ELSE df.rows
        sub   == IF ~ag /\ ql # <<>> THEN filter_by_qual(sub1, ql) ELSE sub1
        idx   == numeric_cols(df, yr)
        names == Names(df.cols, idx)
        meta  == build_metadata(st, tp, ql, yr, names, slider_options(df) # <<>>)
        base  == [outcome |-> "ok", sub |-> sub, cols |-> names, idx |-> idx,
                  applied_quals |-> IF ~ag /\ ql # <<>> THEN ql ELSE <<>>,
                  header |-> Relabel(names), metadata |-> meta, exported |-> TRUE]
        stop  == [outcome |-> "raised", sub |-> sub, cols |-> names, idx |-> idx,
                  applied_quals |-> IF ~ag /\ ql # <<>> THEN ql ELSE <<>>,
                  header |-> <<>>, raw |-> <<>>, table |-> <<>>,
                  metadata |-> NoMetadata, exported |-> FALSE]
    IN  IF numeric_cols_raises(df, yr) THEN Raised("filtered")
        ELSE IF ag /\ tp # <<>>
        THEN LET agg_df == groupby_sum(sub, idx)
                 chart  == melt([g \in 1..Len(agg_df) |-> agg_df[g].tp],
                                [g \in 1..Len(agg_df) |-> agg_df[g].cells], names)
             IN  IF rename_collides(names)
                 THEN stop @@ [path |-> "aggregate", chart |-> chart]
                 ELSE base @@
                      [path |-> "aggregate",
                       chart |-> chart,
                       raw |-> agg_df,
                       table |-> [g \in 1..Len(agg_df) |->
                                    [tp |-> agg_df[g].tp,
                                     cells |-> RoundCells(agg_df[g].cells)]]]
        ELSE LET table == Append(
                              [i \in 1..Len(sub) |->
                                  [qual |-> sub[i].qual, tdv |-> sub[i].tdv,
                                   tp |-> sub[i].tp,
                                   cells |-> Restrict(sub[i].vals, idx)]],
                              totals_row(sub, idx))
                 chart == melt(QualColumn(sub),
                               [i \in 1..Len(sub) |-> Restrict(sub[i].vals, idx)],
                               names)
             IN  IF rename_collides(names)
                 THEN stop @@ [path |-> "detailed", chart |-> chart]
                 ELSE base @@
                      [path |-> "detailed",
                       chart |-> chart,
                       raw |-> table,
                       table |-> [i \in 1..Len(table) |->
                                    [qual |-> table[i].qual, tdv |-> table[i].tdv,
                                     tp |-> table[i].tp,
                                     cells |-> RoundCells(table[i].cells)]]]

\* One run of the script body with the values the widgets return: the years
\* of the sheet are parsed before either branch is taken.
run_app(wb, st, tp, ag, ql, yr) ==
    IF years_int_raises(wb.sheet[st]) THEN Raised("years")
    ELSE IF tp = <<>> /\ ql = <<>>
    THEN run_status_only(wb, st, yr)
    ELSE run_filtered(wb, st, tp, ag, ql, yr)

---------------------------------------------------------------------------
(* ui.py: the sidebar widgets of run_app.  A widget keeps its value across   *)
(* reruns while its options are unchanged; when they change it returns its   *)
(* default, or (keep) what of its value is still among the options.          *)

\* options=sorted(df["Training Packages"].unique())
tp_options(wb, st) == sorted(Unique(TpColumn(wb.sheet[st].rows)))

qual_options_all(wb, st, tp) == sorted(Unique(QualColumn(wb.sheet[st].rows)))

\* qual_options = available_quals(df, tps) if tps else sorted(df[...].unique())
qual_options(wb, st, tp) ==
    IF tp # <<>> THEN available_quals(wb.sheet[st].rows, tp)
    ELSE sorted(Unique(QualColumn(wb.sheet[st].rows)))

\* st.sidebar.multiselect(..., options=options, key=...)
multiselect(stored, old_options, options, keep) ==
    IF options = old_options THEN stored
    ELSE IF keep THEN SelectSeq(stored, LAMBDA x : x \in Range(options))
    ELSE <<>>

\* st.sidebar.select_slider(..., options=years_int, value=(first, last));
\* (None, None), written <<>>, when there are no years
select_slider(stored, old_options, options, keep) ==
    IF options = <<>> THEN <<>>
    ELSE IF stored # <<>> /\ (options = old_options
                \/ (keep /\ stored[1] \in Range(options) /\ stored[2] \in Range(options)))
    THEN stored
    ELSE <<options[1], options[Len(options)]>>

\* The selections a multiselect offers: the options picked in any order.
Selections(options) ==
    {s \in UNION {[1..n -> Range(options)] : n \in 0..Len(options)} :
        \A i, j \in 1..Len(s) : i # j => s[i] # s[j]}

\* The ranges a range slider offers.
Ranges(options) ==
    {<<options[i], options[j]>> : i, j \in 1..Len(options)} \cap
    {r \in Int \X Int : r[1] <= r[2]}

---------------------------------------------------------------------------
(* The workbooks of the model *)

\* The qualifications "Qa", "Qb", "Qc", the packages "Pa", "Pb", "Pc" and the
\* TDV "T".
Qa == <<81, 97>>
Qb == <<81, 98>>
Qc == <<81, 99>>
Pa == <<80, 97>>
Pb == <<80, 98>>
Pc == <<80, 99>>
Tdv == <<84>>

\* The period columns "App, Dec_2021" and "Dec_2022".
C21 == <<65, 112, 112, 44, 32, 68, 101, 99, 95, 50, 48, 50, 49>>
C22 == <<68, 101, 99, 95, 50, 48, 50, 50>>

\* "Dec_2021": the label "App, Dec_2021" is shortened to.
D21 == <<68, 101, 99, 95, 50, 48, 50, 49>>

Cells == {NaN, Num(0), Num(2), Num(13)}

\* The column layouts: each period column with the cells drawn for it.
Layouts ==
    { <<>>,
      << [name |-> C21, cells |-> Cells] >>,
      << [name |-> C21, cells |-> {Num(2), Num(13)}],
         [name |-> C22, cells |-> {Num(0)}] >>,
      << [name |-> C21, cells |-> {Num(2)}],
         [name |-> D21, cells |-> {Num(13)}] >> }

\* The layouts of the SA sheet: those, and three columns with two of one label.
SALayouts ==
    Layouts \cup
    { << [name |-> C21, cells |-> {Num(13)}],
         [name |-> D21, cells |-> {Num(2)}],
         [name |-> C22, cells |-> {Num(0), Num(13)}] >> }

LayoutCols(layout) == [j \in 1..Len(layout) |-> layout[j].name]

LayoutVals(layout) ==
    {v \in [1..Len(layout) -> Cells] : \A j \in 1..Len(layout) : v[j] \in layout[j].cells}

SeqsUpTo(S, n) == UNION {[1..k -> S] : k \in 0..n}

\* Qa is a qualification of package Pa only, Qb one of both packages.
RowIds == {<<Qa, Pa>>, <<Qb, Pa>>, <<Qb, Pb>>}

RowSet(layout) ==
    {[qual |-> id[1], tdv |-> Tdv, tp |-> id[2], vals |-> v] :
        id \in RowIds, v \in LayoutVals(layout)}

Sheets ==
    UNION {[cols : {LayoutCols(l)}, rows : SeqsUpTo(RowSet(l), MaxRows)] : l \in Layouts}

\* A period column whose name does not end in a year: "Dec_".
CBad == <<68, 101, 99, 95>>

\* Sheets whose period column int() raises on, once a row makes it numeric.
MalformedSheets ==
    [cols : {<<CBad>>},
     rows : SeqsUpTo(RowSet(<< [name |-> CBad, cells |-> {Num(2)}] >>), MaxRows)]

\* Sheets that differ in their rows' qualifications and packages only.
PlainSheets ==
    [cols : {<<C21, C22>>},
     rows : SeqsUpTo([qual : {Qa, Qb}, tdv : {Tdv}, tp : {Pa, Pb},
                      vals : {<<Num(2), Num(13)>>}], MaxRows)]

InTrainingSheet ==
    [cols |-> <<C22>>,
     rows |-> << [qual |-> Qb, tdv |-> Tdv, tp |-> Pb, vals |-> <<Num(2)>>] >>]

CompletionsSheet ==
    [cols |-> <<>>,
     rows |-> << [qual |-> Qa, tdv |-> Tdv, tp |-> Pa, vals |-> <<>>] >>]

CommencementsSheet ==
    [cols |-> <<C21, C22>>,
     rows |-> << [qual |-> Qb, tdv |-> Tdv, tp |-> Pb, vals |-> <<Num(2), Num(13)>>],
                 [qual |-> Qa, tdv |-> Tdv, tp |-> Pa, vals |-> <<Num(0), NaN>>] >>]

\* The SA sheet: at most one row per status.
SASheets ==
    UNION {[cols : {LayoutCols(l)},
            rows : {<<>>} \cup
                   {<< [status |-> "Commencements", vals |-> v] >> : v \in LayoutVals(l)}] :
           l \in SALayouts}

\* "x, Latest Qualification": a period column of the SA sheet whose label is
\* the name of the identifier column.
XLQ ==
    <<120, 44, 32, 76, 97, 116, 101, 115, 116, 32, 81, 117, 97, 108, 105, 102, 105, 99, 97, 116, 105, 111, 110>>

OverwritingSA ==
    [cols |-> <<XLQ, C21, C22>>,
     rows |-> << [status |-> "Commencements", vals |-> <<Num(2), Num(2), Num(13)>>] >>]

FixedSA ==
    [cols |-> <<C21, C22>>,
     rows |-> << [status |-> "Commencements", vals |-> <<Num(13), Num(2)>>],
                 [status |-> "In-training", vals |-> <<Num(0), NaN>>] >>]

MakeWorkbook(main, sa) ==
    [sheet |-> [s \in Range(Statuses) |->
                    IF s = "Commencements" THEN main
                    ELSE IF s = "In-training" THEN InTrainingSheet
                    ELSE CompletionsSheet],
     sa |-> sa]

\* The workbooks a session is walked through.
Workbooks == {MakeWorkbook(main, FixedSA) : main \in PlainSheets}

\* The workbooks a single run is rendered from.
RenderWorkbooks ==
    {MakeWorkbook(main, FixedSA) : main \in Sheets \cup MalformedSheets} \cup
    {MakeWorkbook(CommencementsSheet, sa) : sa \in SASheets} \cup
    {MakeWorkbook(CompletionsSheet, OverwritingSA)}

EmptyWorkbook == MakeWorkbook([cols |-> <<>>, rows |-> <<>>], [cols |-> <<>>, rows |-> <<>>])

---------------------------------------------------------------------------
(* The dashboard: one action per user interaction, each a whole rerun of    *)
(* the script.                                                              *)

NoCall == [fn |-> "none", arg |-> <<>>, sel |-> <<>>]

Blank == [outcome |-> "blank"]

\* The script, top to bottom, with the values the user left in the widgets.
Rerun(st, tpIn, agIn, qlIn, yrIn, keep) ==
    \E tp \in {multiselect(tpIn, tp_options(workbook, status),
                           tp_options(workbook, st), keep)} :
    \E ag \in {IF tp # <<>> THEN agIn ELSE FALSE} :
    \E ql \in {multiselect(qlIn, qual_options(workbook, status, tps),
                           qual_options(workbook, st, tp), keep)} :
    \E yr \in {select_slider(yrIn, slider_options(workbook.sheet[status]),
                             slider_options(workbook.sheet[st]), keep)} :
        /\ status' = st
        /\ tps' = tp
        /\ aggregate' = ag
        /\ quals' = ql
        /\ year_range' = yr
        /\ view' = run_app(workbook, st, tp, ag, ql, yr)
        /\ UNCHANGED <<workbook, call, ret>>

FirstRun(wb) ==
    LET yrs == slider_options(wb.sheet[Statuses[1]])
        yr  == IF yrs = <<>> THEN <<>> ELSE <<yrs[1], yrs[Len(yrs)]>>
    IN  /\ workbook = wb
        /\ status = Statuses[1]
        /\ tps = <<>>
        /\ aggregate = FALSE
        /\ quals = <<>>
        /\ year_range = yr
        /\ view = run_app(wb, Statuses[1], <<>>, FALSE, <<>>, yr)

Init ==
    /\ \E wb \in Workbooks : FirstRun(wb)
    /\ call = NoCall
    /\ ret = <<>>

SelectStatus ==
    \E st \in Range(Statuses), keep \in BOOLEAN :
        /\ st # status
        /\ Rerun(st, tps, aggregate, quals, year_range, keep)

SelectPackages ==
    \E sel \in Selections(tp_options(workbook, status)), keep \in BOOLEAN :
        /\ sel # tps
        /\ Rerun(status, sel, aggregate, quals, year_range, keep)

ToggleAggregate ==
    /\ tps # <<>>
    /\ Rerun(status, tps, ~aggregate, quals, year_range, FALSE)

SelectQualifications ==
    /\ ~aggregate
    /\ \E sel \in Selections(qual_options(workbook, status, tps)) :
        /\ sel # quals
        /\ Rerun(status, tps, aggregate, sel, year_range, FALSE)

SelectYearRange ==
    \E yr \in Ranges(slider_options(workbook.sheet[status])) :
        /\ yr # year_range
        /\ Rerun(status, tps, aggregate, quals, yr, FALSE)

Next ==
    \/ SelectStatus
    \/ SelectPackages
    \/ ToggleAggregate
    \/ SelectQualifications
    \/ SelectYearRange

Spec == Init /\ [][Next]_vars

---------------------------------------------------------------------------
(* One run of run_app on any workbook and any values the widgets can        *)
(* return for it.                                                           *)

InitRender ==
    /\ workbook \in RenderWorkbooks
    /\ status \in Range(Statuses)
    /\ tps \in Selections(tp_options(workbook, status))
    /\ aggregate \in (IF tps # <<>> THEN BOOLEAN ELSE {FALSE})
    /\ quals \in Selections(qual_options(workbook, status, tps))
    /\ year_range \in (IF slider_options(workbook.sheet[status]) = <<>> THEN {<<>>}
                       ELSE Ranges(slider_options(workbook.sheet[status])))
    /\ view = Blank
    /\ call = NoCall
    /\ ret = <<>>

Render ==
    /\ view = Blank
    /\ view' = run_app(workbook, status, tps, aggregate, quals, year_range)
    /\ UNCHANGED <<workbook, status, tps, aggregate, quals, year_range, call, ret>>

NextRender == Render

SpecRender == InitRender /\ [][NextRender]_vars

---------------------------------------------------------------------------
(* The helpers of filters.py and shorten_label, called directly.            *)

Idle ==
    /\ workbook = EmptyWorkbook
    /\ status = Statuses[1]
    /\ tps = <<>>
    /\ aggregate = FALSE
    /\ quals = <<>>
    /\ year_range = <<>>
    /\ view = Blank

InitCall == Idle /\ call = NoCall /\ ret = <<>>

FilterTables ==
    SeqsUpTo([qual : {Qa, Qb, Qc}, tdv : {Tdv}, tp : {Pa, Pb, Pc}, vals : {<<>>}],
             MaxFilterRows)

CallFilterByTp ==
    /\ call = NoCall
    /\ \E df \in FilterTables, sel \in Selections(<<Pa, Pb, Pc>>) :
        /\ call' = [fn |-> "filter_by_tp", arg |-> df, sel |-> sel]
        /\ ret' = filter_by_tp(df, sel)
        /\ UNCHANGED <<workbook, status, tps, aggregate, quals, year_range, view>>

CallAvailableQuals ==
    /\ call = NoCall
    /\ \E df \in FilterTables, sel \in Selections(<<Pa, Pb, Pc>>) :
        /\ call' = [fn |-> "available_quals", arg |-> df, sel |-> sel]
        /\ ret' = available_quals(df, sel)
        /\ UNCHANGED <<workbook, status, tps, aggregate, quals, year_range, view>>

NextFilter == CallFilterByTp \/ CallAvailableQuals

SpecFilter == InitCall /\ [][NextFilter]_vars

\* "a", "b", the comma and three blanks: the space, the tab and U+2003.
Alphabet == {97, 98, Comma, Space, Tab, 8195}

Strings(n) == SeqsUpTo(Alphabet, n)

CallShortenLabel ==
    /\ call = NoCall
    /\ \E c \in Strings(MaxLen) :
        /\ call' = [fn |-> "shorten_label", arg |-> c, sel |-> <<>>]
        /\ ret' = shorten_label(c)
        /\ UNCHANGED <<workbook, status, tps, aggregate, quals, year_range, view>>

\* The period columns of a view relabelled for the chart (melt) and for the
\* table and the export (rename).
CallRelabel ==
    /\ call = NoCall
    /\ \E names \in SeqsUpTo(Strings(MaxLen - 2), 2) :
        /\ call' = [fn |-> "relabel", arg |-> names, sel |-> <<>>]
        /\ ret' = [chart |-> melt(<<Qa>>, <<[k \in 1..Len(names) |-> Num(0)]>>, names),
                   header |-> Relabel(names)]
        /\ UNCHANGED <<workbook, status, tps, aggregate, quals, year_range, view>>

NextLabel == CallShortenLabel \/ CallRelabel

SpecLabel == InitCall /\ [][NextLabel]_vars

---------------------------------------------------------------------------
(* Properties *)

Abs(n) == IF n < 0 THEN 0 - n ELSE n

\* The multiple of 5 nearest to a count r >= 0 (no count is halfway).
Nearest5(r) == CHOOSE m \in {5 * k : k \in 0..(r \div 5 + 1)} : 2 * Abs(r - m) < 5

ShownAsClaimed(raw, shown) ==
    raw.kind = "num" =>
        LET r == raw.v
            m == Nearest5(r)
        IN  /\ shown = Dash <=> (m = 0 /\ r # 0)
            /\ r = 0 => shown = Num(0)
            /\ ~(m = 0 /\ r # 0) => shown = Num(m)

\* The sum of period column j over rows, a missing value counted as 0.
RECURSIVE RawTotal(_, _)
RawTotal(rows, j) ==
    IF rows = <<>> THEN 0
    ELSE LET c == rows[Len(rows)].vals[j]
         IN  RawTotal(SubSeq(rows, 1, Len(rows) - 1), j) + (IF c = NaN THEN 0 ELSE c.v)

Rendered == view.outcome = "ok"

\* C1: in every displayed table (status-only total, aggregated by package,
\* detailed) a period cell with integer raw value r shows "-" exactly when the
\* multiple of 5 nearest to r is 0 and r is not 0, shows 0 when r is 0, and
\* otherwise shows that multiple; 0 -> 0, 2 -> "-", 13 -> 15.
C1_RoundingAndRedaction ==
    /\ round_redact(Num(0)) = Num(0)
    /\ round_redact(Num(2)) = Dash
    /\ round_redact(Num(13)) = Num(15)
    /\ Rendered =>
        /\ Len(view.table) = Len(view.raw)
        /\ \A i \in 1..Len(view.table) :
            /\ Len(view.table[i].cells) = Len(view.header)
            /\ Len(view.raw[i].cells) = Len(view.header)
            /\ \A k \in 1..Len(view.header) :
                ShownAsClaimed(view.raw[i].cells[k], view.table[i].cells[k])

\* The status-only total of three period columns, two of them under one label:
\* two cells, a raw 2 shown as "-" and a raw 13 shown as 15.
C1_Witness ==
    /\ Rendered
    /\ view.path = "status"
    /\ Len(view.cols) = 3
    /\ Len(view.header) = 2
    /\ \E k \in 1..Len(view.header) :
        view.raw[1].cells[k] = Num(2) /\ view.table[1].cells[k] = Dash
    /\ \E k \in 1..Len(view.header) :
        view.raw[1].cells[k] = Num(13) /\ view.table[1].cells[k] = Num(15)

\* C2: in the detailed view the totals row of every period column is the sum of
\* the raw values of all rows of the filtered view, rounded and redacted once;
\* raw values 10, 20, 5 and 0 in one column total 35 before rounding.
C2_TotalsFromRawValues ==
    /\ totals_row(<< [vals |-> <<Num(10)>>], [vals |-> <<Num(20)>>],
                     [vals |-> <<Num(5)>>], [vals |-> <<Num(0)>>] >>, <<1>>).cells
         = <<Num(35)>>
    /\ (Rendered /\ view.path = "detailed") =>
        LET n == Len(view.table)
        IN  /\ n = Len(view.sub) + 1
            /\ view.table[n].qual = TotalLabel
            /\ \A k \in 1..Len(view.idx) :
                /\ view.raw[n].cells[k] = Num(RawTotal(view.sub, view.idx[k]))
                /\ ShownAsClaimed(Num(RawTotal(view.sub, view.idx[k])),
                                  view.table[n].cells[k])

\* Two rows that are both redacted while their raw total is shown as 5.
C2_Witness ==
    /\ Rendered
    /\ view.path = "detailed"
    /\ Len(view.sub) = 2
    /\ \E k \in 1..Len(view.idx) :
        /\ view.table[1].cells[k] = Dash
        /\ view.table[2].cells[k] = Dash
        /\ view.table[3].cells[k] = Num(5)

PackagesOf(rows) == {rows[i].tp : i \in 1..Len(rows)}

\* C5: the aggregated view has exactly one row per distinct package of the
\* filtered view, and each of its period values is the sum of that column over
\* the package's rows of the filtered view, a missing value counted as 0.
C5_AggregateByPackage ==
    (Rendered /\ view.path = "aggregate") =>
        /\ Len(view.raw) = Cardinality(PackagesOf(view.sub))
        /\ {view.raw[g].tp : g \in 1..Len(view.raw)} = PackagesOf(view.sub)
        /\ \A g \in 1..Len(view.raw) :
            /\ Len(view.raw[g].cells) = Len(view.idx)
            /\ \A k \in 1..Len(view.idx) :
                view.raw[g].cells[k] =
                    Num(RawTotal(SelectSeq(view.sub, LAMBDA r : r.tp = view.raw[g].tp),
                                 view.idx[k]))

\* A package of two rows, one of them with a missing value.
C5_Witness ==
    /\ Rendered
    /\ view.path = "aggregate"
    /\ Len(view.sub) = 2
    /\ Len(view.raw) = 1
    /\ \E k \in 1..Len(view.idx) :
        /\ view.sub[1].vals[view.idx[k]] = NaN
        /\ view.sub[2].vals[view.idx[k]] = Num(13)
        /\ view.raw[1].cells[k] = Num(13)

\* "All aligned qualifications"
AllAligned ==
    <<65, 108, 108, 32, 97, 108, 105, 103, 110, 101, 100, 32, 113,
      117, 97, 108, 105, 102, 105, 99, 97, 116, 105, 111, 110, 115>>

\* C6: the export metadata names the selected qualifications comma-joined,
\* "All aligned qualifications" when packages are selected and qualifications
\* are not, "None" when neither is; and the selected packages comma-joined or
\* "None".
C6_MetadataQualifications ==
    (view.outcome = "ok" /\ view.exported) =>
        /\ view.metadata.Qualifications =
             (IF quals # <<>> THEN Join(CommaSpace, quals)
              ELSE IF tps # <<>> THEN AllAligned
              ELSE NoneStr)
        /\ view.metadata.TrainingPackages =
             (IF tps # <<>> THEN Join(CommaSpace, tps) ELSE NoneStr)

\* The numeric columns of a sheet whose year lies in the selected range.
InSelectedRange(sheet) ==
    {j \in 1..Len(sheet.cols) :
        /\ sheet.rows # <<>>
        /\ year_range = <<>> \/
           (year_range[1] <= YearOf(sheet.cols[j]) /\ YearOf(sheet.cols[j]) <= year_range[2])}

\* The selected period columns of the status sheet and of the SA sheet.
SelectedColumns == InSelectedRange(workbook.sheet[status])

SelectedSAColumns == InSelectedRange(workbook.sa)

\* The records of the status sheet that match the selection.
Matching ==
    SelectSeq(workbook.sheet[status].rows,
              LAMBDA r : /\ tps = <<>> \/ r.tp \in Range(tps)
                         /\ aggregate \/ quals = <<>> \/ r.qual \in Range(quals))

\* The grand-total row: a row of the detailed table (it has the identifier
\* columns) labelled "Total of selected items".
IsTotalsRow(r) == "tdv" \in DOMAIN r /\ r.qual = TotalLabel

\* r is c when c has no comma, and otherwise the text after the first comma of
\* c without its leading and trailing whitespace.
IsShortened(c, r) ==
    IF \A i \in 1..Len(c) : c[i] # Comma
    THEN r = c
    ELSE \E i \in 1..Len(c) :
            /\ c[i] = Comma
            /\ \A j \in 1..(i - 1) : c[j] # Comma
            /\ \E a \in (i + 1)..(Len(c) + 1), b \in i..Len(c) :
                /\ r = SubSeq(c, a, b)
                /\ \A j \in (i + 1)..(a - 1) : c[j] \in Whitespace
                /\ \A j \in (b + 1)..Len(c) : c[j] \in Whitespace
                /\ r = <<>> \/ (r[1] \notin Whitespace /\ r[Len(r)] \notin Whitespace)

\* The table and the chart show exactly the selected period columns of the
\* status sheet, in column order, relabelled.
ShowsSelectedColumns ==
    /\ {view.idx[k] : k \in 1..Len(view.idx)} = SelectedColumns
    /\ \A k \in 1..(Len(view.idx) - 1) : view.idx[k] < view.idx[k + 1]
    /\ Len(view.header) = Len(view.idx)
    /\ \A k \in 1..Len(view.idx) :
        IsShortened(workbook.sheet[status].cols[view.idx[k]], view.header[k])
    /\ \A i \in 1..Len(view.table) : Len(view.table[i].cells) = Len(view.idx)

\* N matching records give N+1 rows, the last and only the last the totals row,
\* and a chart of N points per selected period column.
DetailedShape ==
    /\ Len(view.table) = Len(Matching) + 1
    /\ \A i \in 1..Len(view.table) :
        IsTotalsRow(view.table[i]) <=> i = Len(view.table)
    /\ \A i \in 1..Len(Matching) :
        /\ view.table[i].qual = Matching[i].qual
        /\ view.table[i].tp = Matching[i].tp
    /\ ShowsSelectedColumns
    /\ Len(view.chart) = Len(Matching) * Cardinality(SelectedColumns)

\* One row per package of the matching records, none of them a totals row, and
\* a chart of one point per row and selected period column.
AggregatedShape ==
    /\ Len(view.table) = Cardinality(PackagesOf(Matching))
    /\ {view.table[i].tp : i \in 1..Len(view.table)} = PackagesOf(Matching)
    /\ \A i \in 1..Len(view.table) : ~IsTotalsRow(view.table[i])
    /\ ShowsSelectedColumns
    /\ Len(view.chart) = Len(view.table) * Cardinality(SelectedColumns)

\* The single row of the SA sheet's totals, which is not the grand-total row:
\* it is labelled "Total <status>", or holds a count there when a selected SA
\* column is relabelled "Latest Qualification".  It has one cell per distinct
\* label of the other selected SA period columns, and the chart one point per
\* selected SA period column.
StatusTotalShape ==
    /\ Len(view.table) = 1
    /\ ~IsTotalsRow(view.table[1])
    /\ IF \E j \in SelectedSAColumns :
            IsShortened(workbook.sa.cols[j], LatestQualification)
       THEN view.table[1].qual.kind # "str"
       ELSE /\ view.table[1].qual.kind = "str"
            /\ view.table[1].qual.v = <<"Total ", status>>
    /\ Len(view.table[1].cells) = Len(view.header)
    /\ \A k, m \in 1..Len(view.header) : k # m => view.header[k] # view.header[m]
    /\ \A k \in 1..Len(view.header) :
        /\ view.header[k] # LatestQualification
        /\ \E j \in SelectedSAColumns : IsShortened(workbook.sa.cols[j], view.header[k])
    /\ \A j \in SelectedSAColumns :
        \/ IsShortened(workbook.sa.cols[j], LatestQualification)
        \/ \E k \in 1..Len(view.header) : IsShortened(workbook.sa.cols[j], view.header[k])
    /\ Len(view.chart) = Cardinality(SelectedSAColumns)

C8_AppliedQualsReachable ==
    (view.outcome = "ok" /\ tps # <<>>) =>
        LET df == workbook.sheet[status].rows
        IN  /\ Range(view.applied_quals) \subseteq Range(available_quals(df, tps))
            /\ \A q \in Range(view.applied_quals) :
                \E i \in 1..Len(df) : df[i].qual = q /\ df[i].tp \in Range(tps)

\* A qualification filter is applied while the sheet holds a qualification of
\* an unselected package only.
C8_Witness ==
    /\ view.outcome = "ok"
    /\ tps # <<>>
    /\ view.applied_quals # <<>>
    /\ \E i \in 1..Len(workbook.sheet[status].rows) :
        LET q == workbook.sheet[status].rows[i].qual
        IN  q \notin Range(available_quals(workbook.sheet[status].rows, tps))

\* No row matches the selection: of the SA sheet when the status alone is
\* selected, of the status sheet otherwise.
NoMatchingRows ==
    IF tps = <<>> /\ quals = <<>>
    THEN \A i \in 1..Len(workbook.sa.rows) : workbook.sa.rows[i].status # status
    ELSE Matching = <<>>

\* No period column of the table lies in the year range; without a year range
\* (a status sheet without years) every period column does.
NoPeriodColumns ==
    LET sheet == IF tps = <<>> /\ quals = <<>> THEN workbook.sa
                 ELSE workbook.sheet[status]
    IN  \A j \in 1..Len(sheet.cols) :
            \/ sheet.rows = <<>>
            \/ /\ year_range # <<>>
               /\ ParsesYear(sheet.cols[j])
               /\ ~(year_range[1] <= YearOf(sheet.cols[j])
                    /\ YearOf(sheet.cols[j]) <= year_range[2])

\* C9: a selection with no matching rows, or with no period column in the year
\* range, does not raise: the chart is empty and the table is empty or holds
\* the totals row only.
C9_EmptyResultIsNoError ==
    (view # Blank /\ (NoMatchingRows \/ NoPeriodColumns)) =>
        /\ view.outcome # "raised"
        /\ view.chart = <<>>
        /\ \/ view.table = <<>>
           \/ Len(view.table) = 1 /\ IsTotalsRow(view.table[1])

Count(s, x) == Cardinality({i \in 1..Len(s) : s[i] = x})

\* C3: filter_by_tp(T, P) is T when P is empty; otherwise it is exactly the
\* rows of T whose package is in P: each returned row has its package in P,
\* each matching row of T is returned as often as it occurs, and the row count
\* is the number of matching rows.
C3_FilterByPackages ==
    call.fn = "filter_by_tp" =>
        LET T == call.arg
            P == call.sel
        IN  /\ P = <<>> => ret = T
            /\ P # <<>> =>
                /\ \A i \in 1..Len(ret) : ret[i].tp \in Range(P)
                /\ Len(ret) = Cardinality({i \in 1..Len(T) : T[i].tp \in Range(P)})
                /\ \A i \in 1..Len(T) :
                    T[i].tp \in Range(P) => Count(ret, T[i]) = Count(T, T[i])
                /\ \A i \in 1..Len(ret) : Count(T, ret[i]) >= 1

\* The empty package list returns a table of several rows unchanged.
C3_Witness ==
    /\ call.fn = "filter_by_tp"
    /\ call.sel = <<>>
    /\ Len(call.arg) >= 2
    /\ ret = call.arg

\* C4: available_quals(T, P) is sorted and duplicate-free; it holds all the
\* qualifications of T when P is empty, and exactly those of the rows whose
\* package is in P otherwise, so a subset of available_quals(T, {}).
C4_AvailableQuals ==
    call.fn = "available_quals" =>
        LET T == call.arg
            P == call.sel
        IN  /\ \A i \in 1..(Len(ret) - 1) : StrLess(ret[i], ret[i + 1])
            /\ Range(ret) = {T[i].qual : i \in {k \in 1..Len(T) :
                                                  P = <<>> \/ T[k].tp \in Range(P)}}
            /\ Range(ret) \subseteq Range(available_quals(T, <<>>))

\* Two qualifications, listed in descending order in T, of the selected
\* packages and a third one of another package.
C4_Witness ==
    /\ call.fn = "available_quals"
    /\ call.sel # <<>>
    /\ Len(ret) = 2
    /\ Len(call.arg) = 3
    /\ StrLess(call.arg[2].qual, call.arg[1].qual)
    /\ call.arg[1].tp \in Range(call.sel)
    /\ call.arg[2].tp \in Range(call.sel)
    /\ call.arg[3].qual \notin Range(ret)

\* "Apprentices, 2023_Q4" and "2023_Q4"
ApprenticesQ4 ==
    <<65, 112, 112, 114, 101, 110, 116, 105, 99, 101, 115, 44, 32, 50, 48, 50, 51, 95, 81, 52>>

Q4 == <<50, 48, 50, 51, 95, 81, 52>>

\* C10: shorten_label(c) is the trimmed text after the first comma of c, and c
\* when c has no comma ("Apprentices, 2023_Q4" -> "2023_Q4", "2023_Q4"
\* unchanged); the chart's periods and the table's (and so the export's)
\* headers are the period columns relabelled by this rule.
C10_ShortenLabel ==
    /\ shorten_label(ApprenticesQ4) = Q4
    /\ shorten_label(Q4) = Q4
    /\ call.fn = "shorten_label" => IsShortened(call.arg, ret)
    /\ call.fn = "relabel" =>
        /\ Len(ret.header) = Len(call.arg)
        /\ Len(ret.chart) = Len(call.arg)
        /\ \A k \in 1..Len(call.arg) :
            /\ IsShortened(call.arg[k], ret.header[k])
            /\ IsShortened(call.arg[k], ret.chart[k].period)

\* A name with two commas and blanks around the text after the first.
C10_Witness ==
    /\ call.fn = "shorten_label"
    /\ Cardinality({i \in 1..Len(call.arg) : call.arg[i] = Comma}) = 2
    /\ call.arg[Len(call.arg)] = Space
    /\ ret # <<>>
    /\ Len(ret) < Len(call.arg) - FirstIndex(call.arg, Comma) - 1

===========================================================================
